---- MODULE Spec2Model ----
(***************************************************************************)
(* Model of the k8s_cross CoreDNS plugin (src/k8s_cross.go, the final      *)
(* revision at lines 589-888; src/setup.go; src/headscale/client.go).      *)
(*                                                                         *)
(* DNS names, zones, labels and addresses are TLA+ strings and are taken   *)
(* apart character by character, as the Go strings package does.           *)
(***************************************************************************)
EXTENDS Integers, Sequences, FiniteSets, TLC

(***************************************************************************)
(* Bounds of the model.                                                    *)
(***************************************************************************)
\* longest run of leading labels put in front of a name's tail
MaxLead == 3
\* longest configured zone list
MaxZones == 2
\* number of queries served (concurrently) in one behaviour
NumQueries == 2

(***************************************************************************)
(* The Go strings package, as far as the plugin uses it.                   *)
(***************************************************************************)
Char(s, i) == SubSeq(s, i, i)

HasSuffix(s, suffix) ==
    /\ Len(s) >= Len(suffix)
    /\ SubSeq(s, Len(s) - Len(suffix) + 1, Len(s)) = suffix

TrimSuffix(s, suffix) ==
    IF HasSuffix(s, suffix) THEN SubSeq(s, 1, Len(s) - Len(suffix)) ELSE s

Contains(s, substr) ==
    \E i \in 0..(Len(s) - Len(substr)) : SubSeq(s, i + 1, i + Len(substr)) = substr

UpperLetters == "ABCDEFGHIJKLMNOPQRSTUVWXYZ"
LowerLetters == "abcdefghijklmnopqrstuvwxyz"

\* the lower-case letter of each upper-case letter
LowerOf ==
    [c \in {Char(UpperLetters, k) : k \in 1..Len(UpperLetters)} |->
        Char(LowerLetters, CHOOSE k \in 1..Len(UpperLetters) : Char(UpperLetters, k) = c)]

ToLowerChar(c) == IF c \in DOMAIN LowerOf THEN LowerOf[c] ELSE c

RECURSIVE ToLower(_)
ToLower(s) ==
    IF Len(s) = 0 THEN s
    ELSE ToLowerChar(Char(s, 1)) \o ToLower(SubSeq(s, 2, Len(s)))

\* strings.Split(s, sep) for a one-character separator: the fields between
\* the separators, empty fields included; Split("", sep) is <<"">>.
RECURSIVE SplitFrom(_, _, _, _)
SplitFrom(s, sep, start, i) ==
    IF i > Len(s) THEN << SubSeq(s, start, Len(s)) >>
    ELSE IF Char(s, i) = sep
         THEN << SubSeq(s, start, i - 1) >> \o SplitFrom(s, sep, i + 1, i + 1)
         ELSE SplitFrom(s, sep, start, i + 1)

Split(s, sep) == SplitFrom(s, sep, 1, 1)

(***************************************************************************)
(* State.                                                                  *)
(***************************************************************************)
VARIABLES
    Zones,          \* K8sCross.Zones: sequence of zone strings
    TTL,            \* K8sCross.TTL
    ClusterName,    \* K8sCross.ClusterName
    ClusterSet,     \* K8sCross.ClusterSet
    HeadscaleClient,\* the inventory behind K8sCross.HeadscaleClient: its node list
    requestCount,   \* the request_count_total counter
    queries,        \* one record per ServeDNS invocation
    probe           \* last application of a pure function (name-level checks)

vars == << Zones, TTL, ClusterName, ClusterSet, HeadscaleClient, requestCount,
           queries, probe >>

Nil == "nil"

(***************************************************************************)
(* Zone Matcher and Domain Parser.                                         *)
(***************************************************************************)
\* isClustersetQuery with the leading dot of the suffix forgotten
isClustersetQueryNoDot(name, zones) ==
    \E k \in 1..Len(zones) : HasSuffix(name, zones[k] \o ".")

RECURSIVE isClustersetQueryFrom(_, _, _)
isClustersetQueryFrom(name, zones, k) ==
    IF k > Len(zones) THEN FALSE
    ELSE IF HasSuffix(name, "." \o zones[k] \o ".") THEN TRUE
    ELSE isClustersetQueryFrom(name, zones, k + 1)

isClustersetQuery(name, zones) == isClustersetQueryFrom(name, zones, 1)

Invalid == [service |-> "", namespace |-> "", valid |-> FALSE]

\* parseClusterSetDomain that accepts four labels (off-by-one in the length test)
parseClusterSetDomainShort(name) ==
    LET trimmed == TrimSuffix(name, ".")
        parts == Split(trimmed, ".")
        n == Len(parts)
    IN  IF n < 4 THEN Invalid
        ELSE IF parts[n] # "local" \/ parts[n - 1] # "clusterset" \/ parts[n - 2] # "svc"
        THEN Invalid
        ELSE [service |-> IF n >= 5 THEN parts[n - 4] ELSE "",
              namespace |-> parts[n - 3], valid |-> TRUE]

\* parseClusterSetDomain that checks svc and local but not the label between them
parseClusterSetDomainAnyZone(name) ==
    LET trimmed == TrimSuffix(name, ".")
        parts == Split(trimmed, ".")
        n == Len(parts)
    IN  IF n < 5 THEN Invalid
        ELSE IF parts[n] # "local" \/ parts[n - 2] # "svc" THEN Invalid
        ELSE [service |-> parts[n - 4], namespace |-> parts[n - 3], valid |-> TRUE]

parseClusterSetDomain(name) ==
    LET trimmed == TrimSuffix(name, ".")
        parts == Split(trimmed, ".")
        n == Len(parts)
    IN  IF n < 5 THEN Invalid
        ELSE IF parts[n] # "local" \/ parts[n - 1] # "clusterset" \/ parts[n - 2] # "svc"
        THEN Invalid
        ELSE [service |-> parts[n - 4], namespace |-> parts[n - 3], valid |-> TRUE]

(***************************************************************************)
(* net.ParseIP and IP.To4 (called at src/k8s_cross.go:794-795, 819-820).   *)
(* An IP is kept in its 16-byte form, written as eight 16-bit groups; an   *)
(* IPv4 address a.b.c.d is the group sequence of ::ffff:a.b.c.d.           *)
(***************************************************************************)
DecDigits == "0123456789"
HexDigits == "0123456789abcdef"

DigitValue(digits, c) ==
    IF \E k \in 1..Len(digits) : Char(digits, k) = c
    THEN (CHOOSE k \in 1..Len(digits) : Char(digits, k) = c) - 1
    ELSE -1

\* value of a digit string in the given base, -1 when it is empty or holds
\* a character that is no digit of the base
RECURSIVE NumValue(_, _, _)
NumValue(digits, s, acc) ==
    IF Len(s) = 0 THEN acc
    ELSE LET d == DigitValue(digits, ToLowerChar(Char(s, 1)))
         IN  IF d < 0 THEN -1
             ELSE NumValue(digits, SubSeq(s, 2, Len(s)), acc * Len(digits) + d)

\* v when it is at most max, -1 otherwise
AtMost(v, max) == IF v > max THEN -1 ELSE v

DecField(s) ==
    IF Len(s) = 0 \/ Len(s) > 3 \/ (Len(s) > 1 /\ Char(s, 1) = "0") THEN -1
    ELSE AtMost(NumValue(DecDigits, s, 0), 255)

HexGroup(s) ==
    IF Len(s) = 0 \/ Len(s) > 4 THEN -1 ELSE NumValue(HexDigits, s, 0)

NoIP == [ok |-> FALSE, groups |-> << >>]
NoGroups == [ok |-> TRUE, groups |-> << >>]

\* the 16-bit groups of a byte sequence of even length; no IP when a byte is
\* missing (-1)
GroupsOfBytes(b) ==
    IF \E k \in 1..Len(b) : b[k] < 0 THEN NoIP
    ELSE [ok |-> TRUE, groups |-> [k \in 1..(Len(b) \div 2) |-> b[2 * k - 1] * 256 + b[2 * k]]]

\* the dotted quad whose fields are f
parseIPv4Fields(f) ==
    IF Len(f) # 4 THEN NoIP ELSE GroupsOfBytes([k \in 1..4 |-> DecField(f[k])])

\* the four bytes of a dotted quad, as two 16-bit groups
parseIPv4(s) == parseIPv4Fields(Split(s, "."))

\* the one group of a hexadecimal field
GroupOfHex(v) == IF v < 0 THEN NoIP ELSE [ok |-> TRUE, groups |-> << v >>]

\* the groups of one colon-separated field, which may be a dotted quad
GroupOf(f, quad) == IF quad /\ Contains(f, ".") THEN parseIPv4(f) ELSE GroupOfHex(HexGroup(f))

\* the groups g followed by the groups rest
JoinGroups(g, rest) ==
    IF g.ok /\ rest.ok THEN [ok |-> TRUE, groups |-> g.groups \o rest.groups] ELSE NoIP

\* the groups of a colon-separated run; its last field may be a dotted quad
RECURSIVE GroupsOf(_, _)
GroupsOf(fields, last) ==
    IF Len(fields) = 0 THEN NoGroups
    ELSE JoinGroups(GroupOf(fields[1], Len(fields) = 1 /\ last),
                    GroupsOf(SubSeq(fields, 2, Len(fields)), last))

Zeros(n) == [k \in 1..n |-> 0]

\* the groups of one side of the "::"
SideGroups(side, last) == IF side = "" THEN NoGroups ELSE GroupsOf(Split(side, ":"), last)

\* an address without "::" has exactly eight groups
EightGroups(g) == IF g.ok /\ Len(g.groups) = 8 THEN g ELSE NoIP

\* the "::" stands for the zero groups that are missing, at least one
Expand(hg, tg) ==
    IF hg.ok /\ tg.ok /\ Len(hg.groups) + Len(tg.groups) <= 7
    THEN [ok |-> TRUE,
          groups |-> hg.groups \o Zeros(8 - (Len(hg.groups) + Len(tg.groups))) \o tg.groups]
    ELSE NoIP

\* the address s whose "::" are at the positions ells
parseIPv6At(s, ells) ==
    IF ells = {} THEN EightGroups(GroupsOf(Split(s, ":"), TRUE))
    ELSE IF Cardinality(ells) > 1 THEN NoIP
    ELSE Expand(SideGroups(SubSeq(s, 1, (CHOOSE i \in ells : TRUE) - 1), FALSE),
                SideGroups(SubSeq(s, (CHOOSE i \in ells : TRUE) + 2, Len(s)), TRUE))

parseIPv6(s) == parseIPv6At(s, {i \in 1..(Len(s) - 1) : SubSeq(s, i, i + 1) = "::"})

RECURSIVE FirstOf(_, _, _)
FirstOf(s, chars, i) ==
    IF i > Len(s) THEN ""
    ELSE IF Contains(chars, Char(s, i)) THEN Char(s, i)
    ELSE FirstOf(s, chars, i + 1)

\* the 16-byte form of an IPv4 address: ::ffff:a.b.c.d
V4InV6(q) == IF q.ok THEN [ok |-> TRUE, groups |-> Zeros(5) \o << 65535 >> \o q.groups] ELSE NoIP

\* the address s, whose first '.' or ':' is c
ParseIPBy(s, c) ==
    IF c = "." THEN V4InV6(parseIPv4(s))
    ELSE IF c = ":" THEN parseIPv6(s)
    ELSE NoIP

\* net.ParseIP: the first '.' or ':' met decides which form is parsed
ParseIP(s) == ParseIPBy(s, FirstOf(s, ".:", 1))

\* IP.To4: the 4-byte form exists when the address is ::ffff:a.b.c.d
To4(ip) ==
    IF SubSeq(ip.groups, 1, 6) = Zeros(5) \o << 65535 >>
    THEN [ok |-> TRUE,
          bytes |-> << ip.groups[7] \div 256, ip.groups[7] % 256,
                       ip.groups[8] \div 256, ip.groups[8] % 256 >>]
    ELSE [ok |-> FALSE, bytes |-> << >>]

(***************************************************************************)
(* DNS messages (github.com/miekg/dns, as the plugin uses them).           *)
(***************************************************************************)
RcodeSuccess == "NOERROR"
RcodeServerFailure == "SERVFAIL"
RcodeNameError == "NXDOMAIN"

TypeA == "A"
TypeAAAA == "AAAA"
TypeSRV == "SRV"
TypeTXT == "TXT"
ClassINET == "IN"

\* new(dns.Msg)
NewMsg == [Response |-> FALSE, Authoritative |-> FALSE, Rcode |-> RcodeSuccess,
           Question |-> << >>, Answer |-> << >>]

\* SetReply that also clears the Authoritative flag
SetReplyClearsAuthoritative(m, req) ==
    [m EXCEPT !.Response = TRUE, !.Rcode = RcodeSuccess, !.Authoritative = FALSE,
              !.Question = IF Len(req.Question) > 0 THEN << req.Question[1] >> ELSE @]

\* (*dns.Msg).SetReply: a reply to req, response code success, the question copied
SetReply(m, req) ==
    [m EXCEPT !.Response = TRUE, !.Rcode = RcodeSuccess,
              !.Question = IF Len(req.Question) > 0 THEN << req.Question[1] >> ELSE @]

\* SetRcode that leaves the response code SetReply has set
SetRcodeDropped(m, req, rcode) == SetReply(m, req)

\* (*dns.Msg).SetRcode: SetReply, then the response code
SetRcode(m, req, rcode) == [SetReply(m, req) EXCEPT !.Rcode = rcode]

(***************************************************************************)
(* Inventory Client (src/headscale/client.go).                             *)
(***************************************************************************)
\* what the HTTP round trip of one ListNodes call can come to
HTTPOutcomes == {"200", "transport error", "context deadline exceeded", "500", "bad body"}

\* ListNodes that takes a status other than 200 for an empty node list
ListNodesSilentStatus(inventory, userFilter, http) ==
    IF http = "transport error" \/ http = "context deadline exceeded" \/ http = "bad body"
    THEN [nodes |-> << >>, err |-> http]
    ELSE IF http # "200" THEN [nodes |-> << >>, err |-> Nil]
    ELSE [nodes |-> inventory, err |-> Nil]

\* Client.ListNodes: the decoded node list on status 200 with a decodable
\* body, an error and no nodes otherwise
ListNodes(inventory, userFilter, http) ==
    IF http = "transport error" \/ http = "context deadline exceeded"
    THEN [nodes |-> << >>, err |-> http]
    ELSE IF http # "200"
    THEN [nodes |-> << >>,
          err |-> IF http = "bad body" THEN "decode error"
                  ELSE "API request failed with status " \o http]
    ELSE [nodes |-> inventory, err |-> Nil]

(***************************************************************************)
(* Endpoint Resolver and Record Synthesizer.                               *)
(***************************************************************************)
\* findServiceNodes that keeps a node whose name holds the service or the namespace
findServiceNodesEither(listed, service, namespace) ==
    IF listed.err # Nil THEN [nodes |-> << >>, err |-> listed.err]
    ELSE LET Match(node) ==
                 \/ Contains(ToLower(node.Name), ToLower(service))
                 \/ Contains(ToLower(node.Name), ToLower(namespace))
         IN  [nodes |-> SelectSeq(listed.nodes, Match), err |-> Nil]

\* the tail of findServiceNodes, after ListNodes has returned listed
findServiceNodes(listed, service, namespace) ==
    IF listed.err # Nil THEN [nodes |-> << >>, err |-> listed.err]
    ELSE LET Match(node) ==
                 LET nodeName == ToLower(node.Name)
                 IN  /\ Contains(nodeName, ToLower(service))
                     /\ Contains(nodeName, ToLower(namespace))
         IN  [nodes |-> SelectSeq(listed.nodes, Match), err |-> Nil]

\* fmt.Sprintf("%s.%s.svc.clusterset.local.", service, namespace)
OwnerName(service, namespace) == service \o "." \o namespace \o ".svc.clusterset.local."

\* Hdr whose TTL grows with the requests counted so far
HdrCountedTTL(name, rrtype, ttl) ==
    [Name |-> name, Rrtype |-> rrtype, Class |-> ClassINET, Ttl |-> ttl + requestCount]

\* Hdr with the default TTL in place of the configured one
HdrDefaultTTL(name, rrtype, ttl) == [Name |-> name, Rrtype |-> rrtype, Class |-> ClassINET, Ttl |-> 300]

Hdr(name, rrtype, ttl) == [Name |-> name, Rrtype |-> rrtype, Class |-> ClassINET, Ttl |-> ttl]

\* all address strings of the nodes, node by node
RECURSIVE Addresses(_)
Addresses(nodes) ==
    IF Len(nodes) = 0 THEN << >>
    ELSE nodes[1].IPAddresses \o Addresses(SubSeq(nodes, 2, Len(nodes)))

\* ARecordOf without the test of the 4-byte form
ARecordOfAnyIP(ip, name, ttl) ==
    IF ip.ok THEN << [Hdr |-> Hdr(name, TypeA, ttl), A |-> ip.groups] >> ELSE << >>

\* the A record of an address that parses and has a 4-byte form
ARecordOf(ip, name, ttl) ==
    IF ip.ok /\ To4(ip).ok THEN << [Hdr |-> Hdr(name, TypeA, ttl), A |-> ip.groups] >>
    ELSE << >>

RECURSIVE ARecordsOf(_, _, _)
ARecordsOf(addrs, name, ttl) ==
    IF Len(addrs) = 0 THEN << >>
    ELSE ARecordOf(ParseIP(addrs[1]), name, ttl)
             \o ARecordsOf(SubSeq(addrs, 2, Len(addrs)), name, ttl)

buildARecords(nodes, service, namespace, ttl) ==
    ARecordsOf(Addresses(nodes), OwnerName(service, namespace), ttl)

\* AAAARecordOf without the test of the 4-byte form
AAAARecordOfAnyIP(ip, name, ttl) ==
    IF ip.ok THEN << [Hdr |-> Hdr(name, TypeAAAA, ttl), AAAA |-> ip.groups] >> ELSE << >>

\* the AAAA record of an address that parses and has no 4-byte form
AAAARecordOf(ip, name, ttl) ==
    IF ip.ok /\ ~To4(ip).ok THEN << [Hdr |-> Hdr(name, TypeAAAA, ttl), AAAA |-> ip.groups] >>
    ELSE << >>

RECURSIVE AAAARecordsOf(_, _, _)
AAAARecordsOf(addrs, name, ttl) ==
    IF Len(addrs) = 0 THEN << >>
    ELSE AAAARecordOf(ParseIP(addrs[1]), name, ttl)
             \o AAAARecordsOf(SubSeq(addrs, 2, Len(addrs)), name, ttl)

\* buildAAAARecords that hands back the A records
buildAAAARecordsAsA(nodes, service, namespace, ttl) ==
    ARecordsOf(Addresses(nodes), OwnerName(service, namespace), ttl)

buildAAAARecords(nodes, service, namespace, ttl) ==
    AAAARecordsOf(Addresses(nodes), OwnerName(service, namespace), ttl)

\* buildSRVRecords with one record for each node
buildSRVRecordsPerNode(nodes, service, namespace, ttl) ==
    [k \in 1..Len(nodes) |->
        [Hdr |-> Hdr("_http._tcp." \o OwnerName(service, namespace), TypeSRV, ttl),
         Priority |-> 10, Weight |-> 10, Port |-> 80,
         Target |-> OwnerName(service, namespace)]]

buildSRVRecords(nodes, service, namespace, ttl) ==
    IF Len(nodes) > 0
    THEN << [Hdr |-> Hdr("_http._tcp." \o OwnerName(service, namespace), TypeSRV, ttl),
             Priority |-> 10, Weight |-> 10, Port |-> 80,
             Target |-> OwnerName(service, namespace)] >>
    ELSE << >>

\* buildTXTRecords with the cluster and the clusterset strings exchanged
buildTXTRecordsExchanged(nodes, service, namespace, ttl, clusterName, clusterSet) ==
    IF Len(nodes) > 0
    THEN << [Hdr |-> Hdr(OwnerName(service, namespace), TypeTXT, ttl),
             Txt |-> << "cluster=" \o clusterSet, "clusterset=" \o clusterName,
                        "service=" \o service, "namespace=" \o namespace >>] >>
    ELSE << >>

buildTXTRecords(nodes, service, namespace, ttl, clusterName, clusterSet) ==
    IF Len(nodes) > 0
    THEN << [Hdr |-> Hdr(OwnerName(service, namespace), TypeTXT, ttl),
             Txt |-> << "cluster=" \o clusterName, "clusterset=" \o clusterSet,
                        "service=" \o service, "namespace=" \o namespace >>] >>
    ELSE << >>

(***************************************************************************)
(* Query Engine.                                                           *)
(***************************************************************************)
\* the receiver value e of the K8sCross methods
K8sCross == [Zones |-> Zones, TTL |-> TTL, ClusterName |-> ClusterName,
             ClusterSet |-> ClusterSet]

\* buildAnswers with the A and AAAA cases swapped
buildAnswersSwapped(e, qType, nodes, service, namespace) ==
    IF qType = TypeAAAA
    THEN [supported |-> TRUE, answers |-> buildARecords(nodes, service, namespace, e.TTL)]
    ELSE IF qType = TypeA
    THEN [supported |-> TRUE, answers |-> buildAAAARecords(nodes, service, namespace, e.TTL)]
    ELSE IF qType = TypeSRV
    THEN [supported |-> TRUE, answers |-> buildSRVRecords(nodes, service, namespace, e.TTL)]
    ELSE IF qType = TypeTXT
    THEN [supported |-> TRUE,
          answers |-> buildTXTRecords(nodes, service, namespace, e.TTL,
                                      e.ClusterName, e.ClusterSet)]
    ELSE [supported |-> FALSE, answers |-> << >>]

\* buildAnswers whose default case falls into the A builder
buildAnswersDefaultA(e, qType, nodes, service, namespace) ==
    IF qType = TypeAAAA
    THEN [supported |-> TRUE, answers |-> buildAAAARecords(nodes, service, namespace, e.TTL)]
    ELSE IF qType = TypeSRV
    THEN [supported |-> TRUE, answers |-> buildSRVRecords(nodes, service, namespace, e.TTL)]
    ELSE IF qType = TypeTXT
    THEN [supported |-> TRUE,
          answers |-> buildTXTRecords(nodes, service, namespace, e.TTL,
                                      e.ClusterName, e.ClusterSet)]
    ELSE [supported |-> TRUE, answers |-> buildARecords(nodes, service, namespace, e.TTL)]

\* the switch on the query type: the answers of the builder for a supported
\* type, and no answers for any other type
buildAnswers(e, qType, nodes, service, namespace) ==
    IF qType = TypeA
    THEN [supported |-> TRUE, answers |-> buildARecords(nodes, service, namespace, e.TTL)]
    ELSE IF qType = TypeAAAA
    THEN [supported |-> TRUE, answers |-> buildAAAARecords(nodes, service, namespace, e.TTL)]
    ELSE IF qType = TypeSRV
    THEN [supported |-> TRUE, answers |-> buildSRVRecords(nodes, service, namespace, e.TTL)]
    ELSE IF qType = TypeTXT
    THEN [supported |-> TRUE,
          answers |-> buildTXTRecords(nodes, service, namespace, e.TTL,
                                      e.ClusterName, e.ClusterSet)]
    ELSE [supported |-> FALSE, answers |-> << >>]

\* handleClustersetQuery for request req with question q, where listed is
\* what ListNodes returns if the handler gets as far as calling it
handleClustersetQuery(e, req, q, listed) ==
    LET resp == [SetReply(NewMsg, req) EXCEPT !.Authoritative = TRUE]
        qName == ToLower(q.Name)
        qType == q.Qtype
        parsed == parseClusterSetDomain(qName)
        service == parsed.service
        namespace == parsed.namespace
        found == findServiceNodes(listed, service, namespace)
        built == buildAnswers(e, qType, found.nodes, service, namespace)
    IN  IF ~parsed.valid
        THEN [resp |-> SetRcode(resp, req, RcodeNameError), err |-> Nil]
        ELSE IF found.err # Nil
        THEN [resp |-> SetRcode(resp, req, RcodeServerFailure), err |-> Nil]
        ELSE IF ~built.supported
        THEN [resp |-> SetRcode(resp, req, RcodeSuccess), err |-> Nil]
        ELSE [resp |-> [resp EXCEPT !.Answer = built.answers], err |-> Nil]

\* ServeDNSNextReturn that keeps the next handler's code and drops its error
ServeDNSNextReturnNoErr(res) == [res EXCEPT !.err = Nil]

\* what ServeDNS returns for a name that is not authoritative: the result of
\* plugin.NextOrFailure, which is the next handler's
ServeDNSNextReturn(res) == res

\* ServeDNSReturn with the test of the write error inverted
ServeDNSReturnInverted(handleErr, writeErr) ==
    IF handleErr # Nil THEN [code |-> RcodeServerFailure, err |-> handleErr]
    ELSE IF writeErr = Nil THEN [code |-> RcodeServerFailure, err |-> "write error"]
    ELSE [code |-> RcodeSuccess, err |-> Nil]

\* what ServeDNS returns once handleClustersetQuery and WriteMsg have returned
ServeDNSReturn(handleErr, writeErr) ==
    IF handleErr # Nil THEN [code |-> RcodeServerFailure, err |-> handleErr]
    ELSE IF writeErr # Nil THEN [code |-> RcodeServerFailure, err |-> writeErr]
    ELSE [code |-> RcodeSuccess, err |-> Nil]

Queries == 1..NumQueries

NoReturn == [code |-> RcodeSuccess, err |-> Nil]

\* a ServeDNS invocation that has not started
Idle == [pc |-> "idle", r |-> NewMsg, passed |-> << >>, listCalls |-> << >>,
         listErr |-> Nil, written |-> << >>, writeErr |-> Nil, nextRet |-> NoReturn,
         ret |-> NoReturn]

Request(name, qtype) ==
    [NewMsg EXCEPT !.Question = << [Name |-> name, Qtype |-> qtype, Qclass |-> ClassINET] >>]

\* ServeDNS that dispatches on the record type before the inventory lookup
ServeDNSDispatchFirst(i, r) ==
    LET q == r.Question[1]
        qName == ToLower(q.Name)
        me == queries[i]
    IN  /\ me.pc = "idle"
        /\ \A j \in Queries : j < i => queries[j].pc # "idle"
        /\ IF ~isClustersetQuery(qName, K8sCross.Zones)
           THEN /\ queries' = [queries EXCEPT ![i] =
                       [me EXCEPT !.pc = "next", !.r = r, !.passed = << r >>]]
                /\ UNCHANGED requestCount
           ELSE /\ requestCount' = requestCount + 1
                /\ IF \/ ~parseClusterSetDomain(qName).valid
                      \/ q.Qtype \notin {TypeA, TypeAAAA, TypeSRV, TypeTXT}
                   THEN queries' = [queries EXCEPT ![i] =
                            [me EXCEPT !.r = r, !.pc = "write",
                                       !.written = << handleClustersetQuery(K8sCross, r, q,
                                                          ListNodes(<< >>, "", "200")).resp >>]]
                   ELSE queries' = [queries EXCEPT ![i] =
                            [me EXCEPT !.pc = "inventory", !.r = r, !.listCalls = << "" >>]]
        /\ UNCHANGED << Zones, TTL, ClusterName, ClusterSet, HeadscaleClient, probe >>

\* ServeDNS that counts the request before the test of the zones
ServeDNSCountsAll(i, r) ==
    LET q == r.Question[1]
        qName == ToLower(q.Name)
        me == queries[i]
    IN  /\ me.pc = "idle"
        /\ \A j \in Queries : j < i => queries[j].pc # "idle"
        /\ requestCount' = requestCount + 1
        /\ IF ~isClustersetQuery(qName, K8sCross.Zones)
           THEN queries' = [queries EXCEPT ![i] =
                    [me EXCEPT !.pc = "next", !.r = r, !.passed = << r >>]]
           ELSE IF ~parseClusterSetDomain(qName).valid
           THEN queries' = [queries EXCEPT ![i] =
                    [me EXCEPT !.r = r, !.pc = "write",
                               !.written = << handleClustersetQuery(K8sCross, r, q,
                                                  ListNodes(<< >>, "", "200")).resp >>]]
           ELSE queries' = [queries EXCEPT ![i] =
                    [me EXCEPT !.pc = "inventory", !.r = r, !.listCalls = << "" >>]]
        /\ UNCHANGED << Zones, TTL, ClusterName, ClusterSet, HeadscaleClient, probe >>

\* ServeDNS from its entry to its first call out of the plugin: the next
\* handler, ListNodes, or WriteMsg
ServeDNS(i, r) ==
    LET q == r.Question[1]
        qName == ToLower(q.Name)
        me == queries[i]
    IN  /\ me.pc = "idle"
        /\ \A j \in Queries : j < i => queries[j].pc # "idle"
        /\ IF ~isClustersetQuery(qName, K8sCross.Zones)
           THEN /\ queries' = [queries EXCEPT ![i] =
                       [me EXCEPT !.pc = "next", !.r = r, !.passed = << r >>]]
                /\ UNCHANGED requestCount
           ELSE /\ requestCount' = requestCount + 1
                /\ IF ~parseClusterSetDomain(qName).valid
                   THEN LET h == handleClustersetQuery(K8sCross, r, q, ListNodes(<< >>, "", "200"))
                        IN  queries' = [queries EXCEPT ![i] =
                                [me EXCEPT !.r = r,
                                           !.pc = IF h.err # Nil THEN "done" ELSE "write",
                                           !.written = IF h.err # Nil THEN << >> ELSE << h.resp >>,
                                           !.ret = ServeDNSReturn(h.err, Nil)]]
                   ELSE queries' = [queries EXCEPT ![i] =
                            [me EXCEPT !.pc = "inventory", !.r = r, !.listCalls = << "" >>]]
        /\ UNCHANGED << Zones, TTL, ClusterName, ClusterSet, HeadscaleClient, probe >>

\* the next handler returns: ServeDNS returns its result
NextReturns(i, res) ==
    /\ queries[i].pc = "next"
    /\ queries' = [queries EXCEPT ![i] = [@ EXCEPT !.pc = "done", !.nextRet = res, !.ret = ServeDNSNextReturn(res)]]
    /\ UNCHANGED << Zones, TTL, ClusterName, ClusterSet, HeadscaleClient, requestCount, probe >>

\* ListNodesReturns that calls ListNodes once more after an error
ListNodesReturnsRetry(i, http) ==
    LET me == queries[i]
        listed == ListNodes(HeadscaleClient, me.listCalls[1], http)
    IN  /\ me.pc = "inventory"
        /\ queries' = [queries EXCEPT ![i] =
               IF listed.err # Nil /\ Len(me.listCalls) = 1
               THEN [me EXCEPT !.listCalls = @ \o << "" >>]
               ELSE [me EXCEPT !.listErr = listed.err,
                               !.pc = "write",
                               !.written = << handleClustersetQuery(K8sCross, me.r,
                                                  me.r.Question[1], listed).resp >>]]
        /\ UNCHANGED << Zones, TTL, ClusterName, ClusterSet, HeadscaleClient, requestCount, probe >>

\* ListNodes returns: the rest of handleClustersetQuery, up to the WriteMsg call
ListNodesReturns(i, http) ==
    LET me == queries[i]
        listed == ListNodes(HeadscaleClient, me.listCalls[1], http)
        h == handleClustersetQuery(K8sCross, me.r, me.r.Question[1], listed)
    IN  /\ me.pc = "inventory"
        /\ queries' = [queries EXCEPT ![i] =
               [me EXCEPT !.listErr = listed.err,
                          !.pc = IF h.err # Nil THEN "done" ELSE "write",
                          !.written = IF h.err # Nil THEN << >> ELSE << h.resp >>,
                          !.ret = ServeDNSReturn(h.err, Nil)]]
        /\ UNCHANGED << Zones, TTL, ClusterName, ClusterSet, HeadscaleClient, requestCount, probe >>

\* WriteMsgReturns that puts the TTL of the shared configuration back to 300
WriteMsgReturnsResetsTTL(i, werr) ==
    /\ queries[i].pc = "write"
    /\ queries' = [queries EXCEPT ![i] =
           [@ EXCEPT !.pc = "done", !.writeErr = werr, !.ret = ServeDNSReturn(Nil, werr)]]
    /\ TTL' = 300
    /\ UNCHANGED << Zones, ClusterName, ClusterSet, HeadscaleClient, requestCount, probe >>

\* WriteMsg returns: ServeDNS returns
WriteMsgReturns(i, werr) ==
    /\ queries[i].pc = "write"
    /\ queries' = [queries EXCEPT ![i] =
           [@ EXCEPT !.pc = "done", !.writeErr = werr, !.ret = ServeDNSReturn(Nil, werr)]]
    /\ UNCHANGED << Zones, TTL, ClusterName, ClusterSet, HeadscaleClient, requestCount, probe >>

(***************************************************************************)
(* Configuration (src/setup.go).                                           *)
(***************************************************************************)
\* parseConfig: the zone arguments, or the single zone "." when there are none
parseConfigZones(args) == IF Len(args) = 0 THEN << "." >> ELSE args

(***************************************************************************)
(* Inputs.                                                                 *)
(***************************************************************************)
DefaultTTL == 300

QueryNames == {"my-svc.ns.svc.clusterset.local.", "My-Svc.NS.svc.ClusterSet.local.",
               "a.my-svc.ns.svc.clusterset.local.", "ns.svc.clusterset.local.",
               "service.namespace.svc.other.local.", "google.com."}

QueryTypes == {TypeA, TypeAAAA, TypeSRV, TypeTXT, "MX"}

QueryZones == {parseConfigZones(args) :
                  args \in {<< "clusterset.local" >>, << "other.local" >>, << "local" >>, << >>}}

Inventories ==
    {<< >>,
     << [Name |-> "My-Svc-NS-1", IPAddresses |-> << "10.0.0.1", "2001:db8::1", "not-an-ip" >>],
        [Name |-> "other-node", IPAddresses |-> << "10.0.0.2" >>],
        [Name |-> "service-namespace-1", IPAddresses |-> << "10.0.0.3" >>] >>}

NextResults == {[code |-> RcodeSuccess, err |-> Nil],
                [code |-> RcodeServerFailure, err |-> "next handler error"]}

WriteResults == {Nil, "write error"}

NoProbe == [fn |-> "none", name |-> "", valid |-> FALSE, service |-> "", namespace |-> ""]

Init ==
    /\ Zones \in QueryZones
    /\ TTL \in {DefaultTTL, 600}
    /\ ClusterName = "default-cluster"
    /\ ClusterSet = "default-clusterset"
    /\ HeadscaleClient \in Inventories
    /\ requestCount = 0
    /\ queries = [i \in Queries |-> Idle]
    /\ probe = NoProbe

\* one query at a time, drawn from the full input sets
Next ==
    \/ \E n \in QueryNames, t \in QueryTypes : ServeDNS(1, Request(n, t))
    \/ \E res \in NextResults : NextReturns(1, res)
    \/ \E http \in HTTPOutcomes : ListNodesReturns(1, http)
    \/ \E werr \in WriteResults : WriteMsgReturns(1, werr)

Spec == Init /\ [][Next]_vars

\* NumQueries queries served concurrently, their steps interleaved
ConcurrentNames == {"my-svc.ns.svc.clusterset.local.", "ns.svc.clusterset.local.", "google.com."}
ConcurrentTypes == {TypeA, "MX"}

NextConcurrent ==
    \/ \E i \in Queries, n \in ConcurrentNames, t \in ConcurrentTypes :
           ServeDNS(i, Request(n, t))
    \/ \E i \in Queries, res \in NextResults : NextReturns(i, res)
    \/ \E i \in Queries, http \in HTTPOutcomes : ListNodesReturns(i, http)
    \/ \E i \in Queries, werr \in WriteResults : WriteMsgReturns(i, werr)

SpecConcurrent == Init /\ [][NextConcurrent]_vars

(***************************************************************************)
(* The Zone Matcher and the Domain Parser applied to names and zone lists  *)
(* drawn from larger sets.                                                 *)
(***************************************************************************)
LeadLabels == {"s", "n"}

\* every run of at most n leading labels, each followed by its dot
RECURSIVE Leads(_)
Leads(n) ==
    IF n = 0 THEN {""}
    ELSE Leads(n - 1) \cup {l \o "." \o rest : l \in LeadLabels, rest \in Leads(n - 1)}

Tails == {"svc.clusterset.local", "svc.other.local", "clusterset.local",
          "xclusterset.local", "svc.clusterset.local.x", "svc.clusterset",
          "svc.clusterset.local.", "local", "com", ""}

\* names with and without the trailing dot
Names == {lead \o tail \o dot : lead \in Leads(MaxLead), tail \in Tails, dot \in {"", "."}}

ZoneNames == {"clusterset.local", "other.local", "local", ".", "Clusterset.Local"}

RECURSIVE ZoneListsOf(_)
ZoneListsOf(n) ==
    IF n = 0 THEN {<< >>}
    ELSE ZoneListsOf(n - 1) \cup {<< z >> \o rest : z \in ZoneNames, rest \in ZoneListsOf(n - 1)}

ZoneLists == ZoneListsOf(MaxZones)

InitNames ==
    /\ Zones \in ZoneLists
    /\ TTL = DefaultTTL
    /\ ClusterName = "default-cluster"
    /\ ClusterSet = "default-clusterset"
    /\ HeadscaleClient = << >>
    /\ requestCount = 0
    /\ queries = [i \in Queries |-> Idle]
    /\ probe = NoProbe

\* e.isClustersetQuery(name)
ApplyIsClustersetQuery(name) ==
    /\ probe = NoProbe
    /\ probe' = [fn |-> "isClustersetQuery", name |-> name,
                 valid |-> isClustersetQuery(name, K8sCross.Zones),
                 service |-> "", namespace |-> ""]
    /\ UNCHANGED << Zones, TTL, ClusterName, ClusterSet, HeadscaleClient, requestCount, queries >>

\* e.parseClusterSetDomain(name)
ApplyParseClusterSetDomain(name) ==
    LET p == parseClusterSetDomain(name)
    IN  /\ probe = NoProbe
        /\ probe' = [fn |-> "parseClusterSetDomain", name |-> name, valid |-> p.valid,
                     service |-> p.service, namespace |-> p.namespace]
        /\ UNCHANGED << Zones, TTL, ClusterName, ClusterSet, HeadscaleClient, requestCount,
                        queries >>

NextNames ==
    \/ \E name \in Names : ApplyIsClustersetQuery(name)
    \/ \E name \in Names : ApplyParseClusterSetDomain(name)

SpecNames == InitNames /\ [][NextNames]_vars

(***************************************************************************)
(* The Endpoint Resolver, the Record Synthesizer and the handler applied   *)
(* to inventories drawn from a pool of nodes.                              *)
(***************************************************************************)
\* longest inventory
MaxNodes == 2

NodePool ==
    {[Name |-> "My-Svc-NS-1", IPAddresses |-> << "10.0.0.1", "2001:db8::1" >>],
     [Name |-> "my-svc-ns-2", IPAddresses |-> << "10.0.0.1", "not-an-ip", "::ffff:10.0.0.9" >>],
     [Name |-> "other-node", IPAddresses |-> << "10.0.0.2" >>],
     [Name |-> "ns-only", IPAddresses |-> << >>]}

\* every inventory of at most n nodes; a node may be listed more than once
RECURSIVE InventoriesOf(_)
InventoriesOf(n) ==
    IF n = 0 THEN {<< >>}
    ELSE InventoriesOf(n - 1)
             \cup {<< node >> \o rest : node \in NodePool, rest \in InventoriesOf(n - 1)}

Services == {"", "my-svc", "My-Svc", "zz"}
Namespaces == {"", "ns", "NS"}

HandledNames == {"my-svc.ns.svc.clusterset.local.", "My-Svc.NS.svc.clusterset.local.",
                 "zz.ns.svc.clusterset.local.", "ns.svc.clusterset.local.",
                 "..svc.clusterset.local."}

InitRecords ==
    /\ Zones = << "clusterset.local" >>
    /\ TTL \in {DefaultTTL, 600}
    /\ ClusterName = "default-cluster"
    /\ ClusterSet = "default-clusterset"
    /\ HeadscaleClient \in InventoriesOf(MaxNodes)
    /\ requestCount = 0
    /\ queries = [i \in Queries |-> Idle]
    /\ probe = NoProbe

\* the record of one findServiceNodes call whose ListNodes call, made with
\* userFilter, came to http and returned listed
FindProbe(service, namespace, userFilter, http, listed) ==
    [fn |-> "findServiceNodes", service |-> service, namespace |-> namespace,
     userFilter |-> userFilter, http |-> http, listErr |-> listed.err,
     found |-> findServiceNodes(listed, service, namespace),
     built |-> {},
     records |-> [t \in {TypeA, TypeAAAA, TypeSRV, TypeTXT} |-> << >>]]

\* e.findServiceNodes(ctx, service, namespace), its ListNodes call included
ApplyFindServiceNodes(service, namespace, http) ==
    /\ probe = NoProbe
    /\ probe' = FindProbe(service, namespace, "", http, ListNodes(HeadscaleClient, "", http))
    /\ UNCHANGED << Zones, TTL, ClusterName, ClusterSet, HeadscaleClient, requestCount, queries >>

\* the nodes found have not been handed to the builder of type t yet
CanBuild(t) == probe.fn = "findServiceNodes" /\ probe.found.err = Nil /\ t \notin probe.built

\* e.buildARecords(nodes, service, namespace) on the nodes found
ApplyBuildARecords ==
    /\ CanBuild(TypeA)
    /\ probe' = [probe EXCEPT !.built = @ \cup {TypeA},
                              !.records[TypeA] =
                                  buildARecords(probe.found.nodes, probe.service,
                                                probe.namespace, K8sCross.TTL)]
    /\ UNCHANGED << Zones, TTL, ClusterName, ClusterSet, HeadscaleClient, requestCount, queries >>

\* e.buildAAAARecords(nodes, service, namespace) on the nodes found
ApplyBuildAAAARecords ==
    /\ CanBuild(TypeAAAA)
    /\ probe' = [probe EXCEPT !.built = @ \cup {TypeAAAA},
                              !.records[TypeAAAA] =
                                  buildAAAARecords(probe.found.nodes, probe.service,
                                                   probe.namespace, K8sCross.TTL)]
    /\ UNCHANGED << Zones, TTL, ClusterName, ClusterSet, HeadscaleClient, requestCount, queries >>

\* e.buildSRVRecords(nodes, service, namespace) on the nodes found
ApplyBuildSRVRecords ==
    /\ CanBuild(TypeSRV)
    /\ probe' = [probe EXCEPT !.built = @ \cup {TypeSRV},
                              !.records[TypeSRV] =
                                  buildSRVRecords(probe.found.nodes, probe.service,
                                                  probe.namespace, K8sCross.TTL)]
    /\ UNCHANGED << Zones, TTL, ClusterName, ClusterSet, HeadscaleClient, requestCount, queries >>

\* e.buildTXTRecords(nodes, service, namespace) on the nodes found
ApplyBuildTXTRecords ==
    /\ CanBuild(TypeTXT)
    /\ probe' = [probe EXCEPT !.built = @ \cup {TypeTXT},
                              !.records[TypeTXT] =
                                  buildTXTRecords(probe.found.nodes, probe.service,
                                                  probe.namespace, K8sCross.TTL,
                                                  K8sCross.ClusterName, K8sCross.ClusterSet)]
    /\ UNCHANGED << Zones, TTL, ClusterName, ClusterSet, HeadscaleClient, requestCount, queries >>

\* the record of one handleClustersetQuery call for request req, whose
\* ListNodes call, if made, came to http and returned listed
HandleProbe(req, http, listed, h) ==
    [fn |-> "handleClustersetQuery", req |-> req, http |-> http, listErr |-> listed.err,
     resp |-> h.resp, err |-> h.err]

\* the handler applied to req, with listed standing for what ListNodes returns
HandleRequest(req, http, listed) ==
    HandleProbe(req, http, listed, handleClustersetQuery(K8sCross, req, req.Question[1], listed))

\* e.handleClustersetQuery(ctx, r, state)
ApplyHandleClustersetQuery(name, qtype, http) ==
    /\ probe = NoProbe
    /\ probe' = HandleRequest(Request(name, qtype), http, ListNodes(HeadscaleClient, "", http))
    /\ UNCHANGED << Zones, TTL, ClusterName, ClusterSet, HeadscaleClient, requestCount, queries >>

NextRecords ==
    \/ \E service \in Services, namespace \in Namespaces, http \in HTTPOutcomes :
           ApplyFindServiceNodes(service, namespace, http)
    \/ ApplyBuildARecords
    \/ ApplyBuildAAAARecords
    \/ ApplyBuildSRVRecords
    \/ ApplyBuildTXTRecords
    \/ \E name \in HandledNames, qtype \in QueryTypes, http \in HTTPOutcomes :
           ApplyHandleClustersetQuery(name, qtype, http)

SpecRecords == InitRecords /\ [][NextRecords]_vars

(***************************************************************************)
(* parseConfig (src/setup.go) applied to one k8s_cross block: the zone     *)
(* arguments of the directive and the property lines between its braces,   *)
(* each a name and its arguments.                                          *)
(***************************************************************************)
\* longest run of property lines in a block
MaxProps == 2

\* the largest value of a uint32, in decimal digits
MaxUint32Digits == "4294967295"

\* a digit string without its leading zeros
RECURSIVE TrimZeros(_)
TrimZeros(s) ==
    IF Len(s) > 1 /\ Char(s, 1) = "0" THEN TrimZeros(SubSeq(s, 2, Len(s))) ELSE s

\* for digit strings of one length: the number a is at most the number b
RECURSIVE DigitsAtMost(_, _)
DigitsAtMost(a, b) ==
    IF Len(a) = 0 THEN TRUE
    ELSE IF DigitValue(DecDigits, Char(a, 1)) # DigitValue(DecDigits, Char(b, 1))
    THEN DigitValue(DecDigits, Char(a, 1)) < DigitValue(DecDigits, Char(b, 1))
    ELSE DigitsAtMost(SubSeq(a, 2, Len(a)), SubSeq(b, 2, Len(b)))

\* the number written by the digits fits 32 bits
FitsDigits(digits) ==
    \/ Len(digits) < Len(MaxUint32Digits)
    \/ Len(digits) = Len(MaxUint32Digits) /\ DigitsAtMost(digits, MaxUint32Digits)

FitsUint32(tok) == FitsDigits(TrimZeros(tok))

\* the longest prefix of s made of characters of chars, from position i on
RECURSIVE PrefixOf(_, _, _)
PrefixOf(s, chars, i) ==
    IF i > Len(s) THEN s
    ELSE IF Contains(chars, Char(s, i)) THEN PrefixOf(s, chars, i + 1)
    ELSE SubSeq(s, 1, i - 1)

\* the value of the token Sscanf has read for a uint32: strconv.ParseUint in
\* base 10 takes no underscore, and the value has to fit 32 bits
ScannedUint32(tok) ==
    IF Len(tok) = 0 \/ Contains(tok, "_") THEN [ok |-> FALSE, value |-> 0]
    ELSE IF ~FitsUint32(tok) THEN [ok |-> FALSE, value |-> 0]
    ELSE [ok |-> TRUE, value |-> NumValue(DecDigits, tok, 0)]

\* fmt.Sscanf(s, "%d", &ttl) with ttl a uint32: the verb reads the longest
\* run of digits and underscores the string begins with (no sign), and what
\* follows the run is left unread
SscanfUint32(s) == ScannedUint32(PrefixOf(s, DecDigits \o "_", 1))

\* a nil *K8sCross
NoPlugin == [Zones |-> << >>, TTL |-> 0, ClusterName |-> "", ClusterSet |-> "",
             HeadscaleClient |-> << >>]

\* headscale.NewClient(url, apiKey); a client pointer is the empty sequence
\* when nil and holds the client otherwise
NewClient(url, apiKey) == << [BaseURL |-> url, APIKey |-> apiKey] >>

\* the instance of line 51-56
NewK8sCross(zones) ==
    [Zones |-> zones, TTL |-> 300, ClusterName |-> "default-cluster",
     ClusterSet |-> "default-clusterset", HeadscaleClient |-> << >>]

\* the ttl case once Sscanf has returned scanned for the argument arg
ttlScanned(k, arg, scanned) ==
    IF ~scanned.ok THEN [plugin |-> k, err |-> "invalid TTL value: " \o arg]
    ELSE [plugin |-> [k EXCEPT !.TTL = scanned.value], err |-> Nil]

\* one turn of the c.NextBlock() loop: the switch on the property name
parseProperty(k, name, args) ==
    IF name = "headscale_url"
    THEN IF Len(args) < 2
         THEN [plugin |-> k, err |-> "headscale_url requires both URL and API key"]
         ELSE [plugin |-> [k EXCEPT !.HeadscaleClient = NewClient(args[1], args[2])],
               err |-> Nil]
    ELSE IF name = "ttl"
    THEN IF Len(args) # 1 THEN [plugin |-> k, err |-> "ttl requires exactly one argument"]
         ELSE ttlScanned(k, args[1], SscanfUint32(args[1]))
    ELSE IF name = "cluster"
    THEN IF Len(args) # 1 THEN [plugin |-> k, err |-> "cluster requires exactly one argument"]
         ELSE [plugin |-> [k EXCEPT !.ClusterName = args[1]], err |-> Nil]
    ELSE IF name = "clusterset"
    THEN IF Len(args) # 1
         THEN [plugin |-> k, err |-> "clusterset requires exactly one argument"]
         ELSE [plugin |-> [k EXCEPT !.ClusterSet = args[1]], err |-> Nil]
    ELSE [plugin |-> k, err |-> "unknown property '" \o name \o "'"]

\* the c.NextBlock() loop from property line i on; it stops at the first error
RECURSIVE parseProperties(_, _, _)
parseProperties(res, props, i) ==
    IF res.err # Nil \/ i > Len(props) THEN res
    ELSE parseProperties(parseProperty(res.plugin, props[i].name, props[i].args), props, i + 1)

\* the validation after the loop
validateConfig(res) ==
    IF res.err # Nil THEN [plugin |-> NoPlugin, err |-> res.err]
    ELSE IF res.plugin.HeadscaleClient = << >>
    THEN [plugin |-> NoPlugin,
          err |-> "headscale_url is required configuration for k8s_cross plugin"]
    ELSE res

parseConfig(block) ==
    validateConfig(parseProperties([plugin |-> NewK8sCross(parseConfigZones(block.zones)),
                                    err |-> Nil],
                                   block.props, 1))

Properties ==
    {[name |-> "headscale_url", args |-> << "http://headscale:8080", "api-key-123" >>],
     [name |-> "headscale_url", args |-> << "http://headscale:8080" >>],
     [name |-> "headscale_url", args |-> << "http://other:8080", "key", "more" >>],
     [name |-> "ttl", args |-> << "600" >>],
     [name |-> "ttl", args |-> << "300abc" >>],
     [name |-> "ttl", args |-> << "invalid" >>],
     [name |-> "ttl", args |-> << "-5" >>],
     [name |-> "ttl", args |-> << "1_0" >>],
     [name |-> "ttl", args |-> << "4294967296" >>],
     [name |-> "ttl", args |-> << >>],
     [name |-> "cluster", args |-> << "my-cluster" >>],
     [name |-> "cluster", args |-> << >>],
     [name |-> "clusterset", args |-> << "my-clusterset" >>],
     [name |-> "clusterset", args |-> << "a", "b" >>],
     [name |-> "fallthrough", args |-> << >>]}

\* every run of at most n property lines
RECURSIVE PropertyLinesOf(_)
PropertyLinesOf(n) ==
    IF n = 0 THEN {<< >>}
    ELSE PropertyLinesOf(n - 1)
             \cup {<< line >> \o rest : line \in Properties, rest \in PropertyLinesOf(n - 1)}

Blocks ==
    {[zones |-> zones, props |-> props] :
        zones \in {<< >>, << "clusterset.local" >>, << "clusterset.local", "other.local" >>},
        props \in PropertyLinesOf(MaxProps)}

\* before setup has run there is no plugin
InitConfig ==
    /\ Zones = NoPlugin.Zones
    /\ TTL = NoPlugin.TTL
    /\ ClusterName = NoPlugin.ClusterName
    /\ ClusterSet = NoPlugin.ClusterSet
    /\ HeadscaleClient = << >>
    /\ requestCount = 0
    /\ queries = [i \in Queries |-> Idle]
    /\ probe = NoProbe

\* the state after setup, given what parseConfig returned for the block
Configured(block, res) ==
    /\ probe' = [fn |-> "parseConfig", block |-> block, plugin |-> res.plugin, err |-> res.err]
    /\ Zones' = res.plugin.Zones
    /\ TTL' = res.plugin.TTL
    /\ ClusterName' = res.plugin.ClusterName
    /\ ClusterSet' = res.plugin.ClusterSet

\* setup: parseConfig on the block; the plugin it returns is the one added
\* to the server, and on an error none is
setup(block) ==
    /\ probe = NoProbe
    /\ Configured(block, parseConfig(block))
    /\ UNCHANGED << HeadscaleClient, requestCount, queries >>

NextConfig == \E block \in Blocks : setup(block)

SpecConfig == InitConfig /\ [][NextConfig]_vars

(***************************************************************************)
(* Properties of the Zone Matcher and the Domain Parser (SpecNames).       *)
(***************************************************************************)
\* name is front \o "." \o zone \o "." for some front
EndsWithZone(name, zone) ==
    \E j \in 0..Len(name) : name = SubSeq(name, 1, j) \o "." \o zone \o "."

\* C1: isClustersetQuery(n) is true if and only if n ends with the literal
\* "." + z + "." for at least one configured zone z, compared as configured
\* (no case folding); so a name equal to z + "." is not matched by z, and a
\* name in which z only follows a label fragment is not matched either.
C1_ZoneMatchIffDottedSuffix ==
    probe.fn = "isClustersetQuery" =>
        /\ probe.valid <=> \E k \in 1..Len(Zones) : EndsWithZone(probe.name, Zones[k])
        /\ (Len(Zones) = 1 /\ probe.name = Zones[1] \o ".") => ~probe.valid
        /\ (Len(Zones) = 1 /\ probe.name = "x" \o Zones[1] \o ".") => ~probe.valid

\* a name under the second of two configured zones is matched
C1_Witness ==
    /\ probe.fn = "isClustersetQuery"
    /\ probe.valid
    /\ Zones = << "other.local", "clusterset.local" >>
    /\ probe.name = "s.n.svc.clusterset.local."

\* name without one trailing dot
Undotted(name) ==
    IF Len(name) > 0 /\ Char(name, Len(name)) = "." THEN SubSeq(name, 1, Len(name) - 1)
    ELSE name

NoDotIn(s) == \A k \in 1..Len(s) : Char(s, k) # "."

\* t is front \o service \o "." \o namespace \o ".svc.clusterset.local", where
\* service and namespace hold no dot and front is empty or ends with a dot:
\* t has at least five labels, the last three are svc, clusterset, local, and
\* service and namespace are the fifth and the fourth label from the end
FiveLabelShape(t, service, namespace) ==
    \E a \in 1..(Len(t) + 1) :
        /\ t = SubSeq(t, 1, a - 1) \o service \o "." \o namespace \o ".svc.clusterset.local"
        /\ NoDotIn(service)
        /\ NoDotIn(namespace)
        /\ a = 1 \/ Char(t, a - 1) = "."

\* number of labels of t: one more than its dots
NumLabels(t) == Cardinality({k \in 1..Len(t) : Char(t, k) = "."}) + 1

\* t is front \o suffix for some front
EndsWith(t, suffix) == \E c \in 0..Len(t) : t = SubSeq(t, 1, c) \o suffix

\* C2: parseClusterSetDomain(name), after removing one trailing dot and
\* splitting on ".", is valid exactly when there are at least five labels
\* and the last three are svc, clusterset, local; then namespace is the
\* fourth and service the fifth label from the end, further leading labels
\* ignored. A name without a trailing dot parses as the name with one.
C2_ParseFiveLabels ==
    probe.fn = "parseClusterSetDomain" =>
        LET t == Undotted(probe.name)
        IN  /\ probe.valid <=> (NumLabels(t) >= 5 /\ EndsWith(t, ".svc.clusterset.local"))
            /\ probe.valid => FiveLabelShape(t, probe.service, probe.namespace)
            /\ ~probe.valid => probe.service = "" /\ probe.namespace = ""
            /\ ~HasSuffix(probe.name, ".") =>
                   parseClusterSetDomain(probe.name \o ".") =
                       [service |-> probe.service, namespace |-> probe.namespace,
                        valid |-> probe.valid]

\* a name with a leading label beyond the five parses to its fifth and fourth
\* label from the end
C2_Witness ==
    /\ probe.fn = "parseClusterSetDomain"
    /\ probe.name = "n.s.n.svc.clusterset.local."
    /\ probe.valid
    /\ probe.service = "s"
    /\ probe.namespace = "n"

\* C9: with no zone argument the zone list is << "." >>, and under that list
\* every dot-terminated name is authoritative.
C9_DefaultZoneMatchesAll ==
    (/\ Zones = parseConfigZones(<< >>)
     /\ probe.fn = "isClustersetQuery"
     /\ HasSuffix(probe.name, ".")) => probe.valid

(***************************************************************************)
(* Properties of the Query Engine (Spec).                                  *)
(***************************************************************************)
Started(i) == queries[i].pc # "idle"
Returned(i) == queries[i].pc = "done"
\* WriteMsg has been called
Wrote(i) == queries[i].pc = "write" \/ (queries[i].pc = "done" /\ queries[i].written # << >>)

QName(i) == ToLower(queries[i].r.Question[1].Name)
QType(i) == queries[i].r.Question[1].Qtype

Authoritative(i) == Started(i) /\ isClustersetQuery(QName(i), Zones)
Parses(i) == parseClusterSetDomain(QName(i)).valid
\* the inventory lookup has returned, with or without an error
Listed(i) == queries[i].listCalls # << >> /\ queries[i].pc # "inventory"
Supported(t) == t \in {TypeA, TypeAAAA, TypeSRV, TypeTXT}

\* the message is a reply to the request of query i
IsReplyTo(m, i) == m.Response /\ m.Question = queries[i].r.Question

\* C3: for a name that is not authoritative ServeDNS hands the request it
\* received, unmodified, to the next handler and returns exactly the
\* (code, error) pair that handler returns; the engine writes nothing to the
\* response writer and makes no inventory call.
C3_PassThrough ==
    \A i \in Queries :
        (Started(i) /\ ~Authoritative(i)) =>
            /\ queries[i].pc \in {"next", "done"}
            /\ queries[i].passed = << queries[i].r >>
            /\ queries[i].written = << >>
            /\ queries[i].listCalls = << >>
            /\ Returned(i) => queries[i].ret = queries[i].nextRet

\* a passed-through query, asked in mixed case, whose next handler failed
C3_Witness ==
    \E i \in Queries :
        /\ Returned(i)
        /\ ~Authoritative(i)
        /\ queries[i].passed[1].Question[1].Name = "My-Svc.NS.svc.ClusterSet.local."
        /\ queries[i].ret = [code |-> RcodeServerFailure, err |-> "next handler error"]

\* C4 as stated: an authoritative name the parser rejects is answered with
\* name-error and no answers, and ServeDNS returns a nil error.
C4_ParseFailureNilError ==
    \A i \in Queries :
        (Authoritative(i) /\ ~Parses(i) /\ Returned(i)) =>
            /\ Len(queries[i].written) = 1
            /\ queries[i].written[1].Rcode = RcodeNameError
            /\ queries[i].written[1].Answer = << >>
            /\ queries[i].ret.err = Nil

\* C4, amended: an authoritative name the parser rejects makes the engine
\* hand WriteMsg its own reply with response code name-error and an empty
\* answer section, without an inventory call; ServeDNS returns (success, nil)
\* when that write succeeds and (server-failure, the write error) when it
\* fails.
C4_ParseFailureNameError ==
    \A i \in Queries :
        (Authoritative(i) /\ ~Parses(i)) =>
            /\ queries[i].pc \in {"write", "done"}
            /\ Len(queries[i].written) = 1
            /\ IsReplyTo(queries[i].written[1], i)
            /\ queries[i].written[1].Rcode = RcodeNameError
            /\ queries[i].written[1].Answer = << >>
            /\ queries[i].listCalls = << >>
            /\ Returned(i) =>
                   queries[i].ret =
                       IF queries[i].writeErr = Nil
                       THEN [code |-> RcodeSuccess, err |-> Nil]
                       ELSE [code |-> RcodeServerFailure, err |-> queries[i].writeErr]

\* a rejected authoritative name whose name-error reply was written
C4_Witness ==
    \E i \in Queries :
        /\ Authoritative(i) /\ ~Parses(i) /\ Returned(i)
        /\ queries[i].writeErr = Nil
        /\ queries[i].written[1].Rcode = RcodeNameError
        /\ queries[i].ret = [code |-> RcodeSuccess, err |-> Nil]

\* C5: when the name is authoritative and parses and ListNodes returns an
\* error, ServeDNS returns (server-failure, the inventory error).
C5_ResolutionErrorPropagated ==
    \A i \in Queries :
        (Authoritative(i) /\ Parses(i) /\ Returned(i) /\ queries[i].listErr # Nil) =>
            queries[i].ret = [code |-> RcodeServerFailure, err |-> queries[i].listErr]

\* C6 as stated: for an authoritative query ServeDNS returns a non-nil error
\* only on the resolution-failure path.
C6_OnlyResolutionFailureErrs ==
    \A i \in Queries :
        (Authoritative(i) /\ Returned(i) /\ queries[i].ret.err # Nil) =>
            (Parses(i) /\ queries[i].listErr # Nil)

\* C6, amended: for an authoritative query ServeDNS returns a non-nil error
\* only on the resolution-failure path or when writing the response fails;
\* a failed write returns the write error on every path.
C6_ErrorOnlyFromResolutionOrWrite ==
    \A i \in Queries :
        (Authoritative(i) /\ Returned(i)) =>
            /\ queries[i].ret.err # Nil =>
                   (Parses(i) /\ queries[i].listErr # Nil) \/ queries[i].writeErr # Nil
            /\ queries[i].writeErr # Nil => queries[i].ret.err = queries[i].writeErr

\* the name-error reply of a rejected name could not be written
C6_Witness ==
    \E i \in Queries :
        /\ Authoritative(i) /\ ~Parses(i) /\ Returned(i)
        /\ queries[i].writeErr = "write error"
        /\ queries[i].ret.err = "write error"

\* the endpoints of query i: the inventory's nodes that match its parsed name
Endpoints(i) ==
    LET p == parseClusterSetDomain(QName(i))
    IN  findServiceNodes([nodes |-> HeadscaleClient, err |-> Nil], p.service, p.namespace).nodes

\* the output of the builder for the type of query i
BuilderOutput(i) ==
    LET p == parseClusterSetDomain(QName(i))
        t == QType(i)
    IN  IF t = TypeA THEN buildARecords(Endpoints(i), p.service, p.namespace, TTL)
        ELSE IF t = TypeAAAA THEN buildAAAARecords(Endpoints(i), p.service, p.namespace, TTL)
        ELSE IF t = TypeSRV THEN buildSRVRecords(Endpoints(i), p.service, p.namespace, TTL)
        ELSE buildTXTRecords(Endpoints(i), p.service, p.namespace, TTL, ClusterName, ClusterSet)

\* the name is authoritative and parses, the lookup succeeded, the type is
\* one of A, AAAA, SRV, TXT
Synthesized(i) ==
    /\ Authoritative(i) /\ Parses(i)
    /\ Listed(i) /\ queries[i].listErr = Nil
    /\ Supported(QType(i))

\* C7 as stated: after a successful lookup for an A, AAAA, SRV or TXT query
\* ServeDNS returns (success, nil).
C7_SynthesisReturnsSuccess ==
    \A i \in Queries :
        (Synthesized(i) /\ Returned(i)) => queries[i].ret = [code |-> RcodeSuccess, err |-> Nil]

\* C7, amended: when the name is authoritative and parses and the lookup
\* succeeds, for a query of type A, AAAA, SRV or TXT the engine hands WriteMsg
\* a reply to the request with response code success, the Authoritative flag
\* set and the answer section equal to the output of the builder of the
\* requested type; ServeDNS returns (success, nil) when that write succeeds
\* and (server-failure, the write error) when it fails.
C7_SynthesisReply ==
    \A i \in Queries :
        Synthesized(i) =>
            /\ queries[i].pc \in {"write", "done"}
            /\ Len(queries[i].written) = 1
            /\ IsReplyTo(queries[i].written[1], i)
            /\ queries[i].written[1].Rcode = RcodeSuccess
            /\ queries[i].written[1].Authoritative
            /\ queries[i].written[1].Answer = BuilderOutput(i)
            /\ Returned(i) =>
                   queries[i].ret =
                       IF queries[i].writeErr = Nil
                       THEN [code |-> RcodeSuccess, err |-> Nil]
                       ELSE [code |-> RcodeServerFailure, err |-> queries[i].writeErr]

\* an A query answered with the one A record of the matching endpoint
C7_Witness ==
    \E i \in Queries :
        /\ Synthesized(i) /\ Returned(i)
        /\ QType(i) = TypeA
        /\ Len(queries[i].written[1].Answer) = 1
        /\ queries[i].written[1].Answer[1].Hdr.Rrtype = TypeA
        /\ queries[i].ret = [code |-> RcodeSuccess, err |-> Nil]

\* C8: for an authoritative, parseable name queried with a type other than
\* A, AAAA, SRV or TXT, the response built after the lookup has an empty
\* answer section and the success response code, whatever endpoints matched.
C8_UnsupportedTypeEmptySuccess ==
    \A i \in Queries :
        (/\ Authoritative(i) /\ Parses(i)
         /\ Listed(i) /\ queries[i].listErr = Nil
         /\ ~Supported(QType(i))) =>
            /\ Len(queries[i].written) = 1
            /\ IsReplyTo(queries[i].written[1], i)
            /\ queries[i].written[1].Rcode = RcodeSuccess
            /\ queries[i].written[1].Answer = << >>

\* an MX query for a name that has a matching endpoint
C8_Witness ==
    \E i \in Queries :
        /\ Authoritative(i) /\ Parses(i) /\ Returned(i)
        /\ queries[i].listErr = Nil
        /\ QType(i) = "MX"
        /\ Endpoints(i) # << >>
        /\ queries[i].written[1].Answer = << >>

\* the example of C10: zone other.local, name service.namespace.svc.other.local.,
\* an A query, and an inventory with an endpoint named after the service and
\* the namespace that has an IPv4 address
OtherLocalExample(i) ==
    /\ Zones = << "other.local" >>
    /\ Started(i)
    /\ QName(i) = "service.namespace.svc.other.local."
    /\ QType(i) = TypeA
    /\ \E k \in 1..Len(HeadscaleClient) :
           /\ HeadscaleClient[k].Name = "service-namespace-1"
           /\ HeadscaleClient[k].IPAddresses = << "10.0.0.3" >>

\* C10 as stated: the query authorized under zone other.local for
\* service.namespace.svc.other.local. receives a success response with a
\* non-empty answer section.
C10_OtherZoneAnswered ==
    \A i \in Queries :
        (OtherLocalExample(i) /\ Returned(i) /\ queries[i].writeErr = Nil) =>
            /\ Len(queries[i].written) = 1
            /\ queries[i].written[1].Rcode = RcodeSuccess
            /\ queries[i].written[1].Answer # << >>

\* a zone list without clusterset.local
OtherZonesOnly == \A k \in 1..Len(Zones) : Zones[k] # "clusterset.local"

\* C10, amended: a query authorized under a configured zone other than
\* clusterset.local (zone local and name my-svc.ns.svc.clusterset.local.)
\* receives a success response with a non-empty answer section named under
\* svc.clusterset.local. when an endpoint matches; but whichever zone
\* authorized the query, a response has answers only if the query name ends
\* with .svc.clusterset.local., so the name service.namespace.svc.other.local.
\* under zone other.local gets name-error and an empty answer section.
C10_AnswersOnlyUnderClustersetLocal ==
    \A i \in Queries :
        Wrote(i) =>
            /\ queries[i].written[1].Answer # << >> =>
                   /\ HasSuffix(QName(i), ".svc.clusterset.local.")
                   /\ \A k \in 1..Len(queries[i].written[1].Answer) :
                          HasSuffix(queries[i].written[1].Answer[k].Hdr.Name,
                                    ".svc.clusterset.local.")
            /\ ~HasSuffix(QName(i), ".svc.clusterset.local.") =>
                   /\ queries[i].written[1].Rcode = RcodeNameError
                   /\ queries[i].written[1].Answer = << >>
            /\ (/\ OtherZonesOnly
                /\ Synthesized(i)
                /\ QType(i) \in {TypeSRV, TypeTXT}
                /\ Endpoints(i) # << >>) =>
                   /\ queries[i].written[1].Rcode = RcodeSuccess
                   /\ queries[i].written[1].Answer # << >>

\* under zone local a query has been answered with a record named under
\* svc.clusterset.local.
C10_Witness ==
    \E i \in Queries :
        /\ Zones = << "local" >>
        /\ Synthesized(i) /\ Returned(i)
        /\ QType(i) = TypeSRV
        /\ queries[i].writeErr = Nil
        /\ queries[i].written[1].Rcode = RcodeSuccess
        /\ Len(queries[i].written[1].Answer) = 1
        /\ queries[i].written[1].Answer[1].Target = "my-svc.ns.svc.clusterset.local."

(***************************************************************************)
(* Properties of the Endpoint Resolver and the Record Synthesizer          *)
(* (SpecRecords).                                                          *)
(***************************************************************************)
\* s is front \o sub \o back for some front and back
HoldsSubstring(s, sub) ==
    \E a \in 0..Len(s) :
        /\ a + Len(sub) <= Len(s)
        /\ s = SubSeq(s, 1, a) \o sub \o SubSeq(s, a + Len(sub) + 1, Len(s))

\* the places of the inventory whose node name, lowercased, holds lowercased sub
PlacesHolding(sub) ==
    {k \in 1..Len(HeadscaleClient) : HoldsSubstring(ToLower(HeadscaleClient[k].Name), ToLower(sub))}

\* seq is the elements of all at the places idx, in the order of all
IsSelection(seq, all, idx) ==
    /\ Len(seq) = Cardinality(idx)
    /\ \A k \in idx : seq[Cardinality({m \in idx : m <= k})] = all[k]

\* C11: findServiceNodes calls ListNodes with an empty owner filter and
\* returns exactly the inventory nodes whose lowercased name holds the
\* lowercased service and the lowercased namespace as substrings, in the
\* inventory's order; an empty service or namespace matches every node; an
\* empty result comes with a nil error; a ListNodes error is returned
\* unchanged with no nodes.
C11_FindServiceNodes ==
    probe.fn = "findServiceNodes" =>
        /\ probe.userFilter = ""
        /\ probe.listErr = Nil =>
               /\ probe.found.err = Nil
               /\ IsSelection(probe.found.nodes, HeadscaleClient,
                              PlacesHolding(probe.service) \cap PlacesHolding(probe.namespace))
               /\ probe.service = "" =>
                      IsSelection(probe.found.nodes, HeadscaleClient,
                                  PlacesHolding(probe.namespace))
               /\ probe.namespace = "" =>
                      IsSelection(probe.found.nodes, HeadscaleClient,
                                  PlacesHolding(probe.service))
               /\ (probe.service = "" /\ probe.namespace = "") =>
                      probe.found.nodes = HeadscaleClient
        /\ probe.listErr # Nil => probe.found = [nodes |-> << >>, err |-> probe.listErr]

\* the second of two nodes is the only one found, for a service and a
\* namespace written in another case than the node's name
C11_Witness ==
    /\ probe.fn = "findServiceNodes"
    /\ Len(HeadscaleClient) = 2
    /\ HeadscaleClient[1].Name = "other-node"
    /\ HeadscaleClient[2].Name = "My-Svc-NS-1"
    /\ probe.service = "my-svc"
    /\ probe.namespace = "NS"
    /\ probe.found = [nodes |-> << HeadscaleClient[2] >>, err |-> Nil]

\* the places <<node, address>> of the address strings of the nodes
AddressPlaces(nodes) ==
    UNION {{<< k, j >> : j \in 1..Len(nodes[k].IPAddresses)} : k \in 1..Len(nodes)}

AddressAt(nodes, p) == nodes[p[1]].IPAddresses[p[2]]

\* place p is place q or comes before it, node by node and address by address
NotAfter(p, q) == p[1] < q[1] \/ (p[1] = q[1] /\ p[2] <= q[2])

\* the places whose address string parses as an IP address
ParsedPlaces(nodes) == {p \in AddressPlaces(nodes) : ParseIP(AddressAt(nodes, p)).ok}

\* the places whose address parses and has a 4-byte form
IPv4Places(nodes) == {p \in ParsedPlaces(nodes) : To4(ParseIP(AddressAt(nodes, p))).ok}

\* the places whose address parses and has no 4-byte form
IPv6Places(nodes) == ParsedPlaces(nodes) \ IPv4Places(nodes)

\* C12: buildARecords returns one A record for each address string, over
\* all candidate endpoints in order and without de-duplication, that parses
\* as an IP address and has a 4-byte form; each record has the owner name
\* <service>.<namespace>.svc.clusterset.local., class internet and the
\* configured TTL; other address strings give no A record.
C12_ARecordPerIPv4Address ==
    (probe.fn = "findServiceNodes" /\ TypeA \in probe.built) =>
        LET nodes == probe.found.nodes
            recs == probe.records[TypeA]
            places == IPv4Places(nodes)
        IN  /\ Len(recs) = Cardinality(places)
            /\ \A p \in places :
                   recs[Cardinality({q \in places : NotAfter(q, p)})] =
                       [Hdr |-> [Name |-> probe.service \o "." \o probe.namespace
                                              \o ".svc.clusterset.local.",
                                 Rrtype |-> "A", Class |-> "IN", Ttl |-> TTL],
                        A |-> ParseIP(AddressAt(nodes, p)).groups]

\* two endpoints that share the address 10.0.0.1 and hold an IPv4-mapped
\* address, an IPv6 address and a string that is no address: three A records,
\* the shared address twice
C12_Witness ==
    /\ probe.fn = "findServiceNodes"
    /\ TypeA \in probe.built
    /\ TTL = 600
    /\ Len(probe.found.nodes) = 2
    /\ probe.found.nodes[1].IPAddresses = << "10.0.0.1", "not-an-ip", "::ffff:10.0.0.9" >>
    /\ probe.found.nodes[2].IPAddresses = << "10.0.0.1", "2001:db8::1" >>
    /\ Len(probe.records[TypeA]) = 3
    /\ probe.records[TypeA][1].A = probe.records[TypeA][3].A
    /\ probe.records[TypeA][2].A = << 0, 0, 0, 0, 0, 65535, 2560, 9 >>
    /\ probe.records[TypeA][2].Hdr.Ttl = 600

\* the service and the namespace the handler parses from the name asked
HandledName == parseClusterSetDomain(ToLower(probe.req.Question[1].Name))

\* the endpoints of the handled request: the inventory nodes, in order, whose
\* name holds the parsed service and the parsed namespace
HandledEndpoints ==
    SelectSeq(HeadscaleClient,
              LAMBDA node : /\ HoldsSubstring(ToLower(node.Name), HandledName.service)
                            /\ HoldsSubstring(ToLower(node.Name), HandledName.namespace))

\* the handler has got past the parser and a lookup without error
Resolved ==
    /\ probe.fn = "handleClustersetQuery"
    /\ HandledName.valid
    /\ probe.listErr = Nil

\* C13: the A and the AAAA builder split the addresses of an endpoint set
\* without overlap: an address string that parses as an IP gives a record in
\* exactly one of them, the AAAA builder exactly when it has no 4-byte form;
\* a string that does not parse gives a record in neither and does not fail
\* the query. An endpoint set with one IPv4 and one IPv6 address gives exactly
\* one A record for an A query and exactly one AAAA record for an AAAA query.
C13_AddressesSplitWithoutOverlap ==
    /\ (probe.fn = "findServiceNodes" /\ {TypeA, TypeAAAA} \subseteq probe.built) =>
           LET nodes == probe.found.nodes
               a == probe.records[TypeA]
               aaaa == probe.records[TypeAAAA]
           IN  /\ Len(a) + Len(aaaa) = Cardinality(ParsedPlaces(nodes))
               /\ Len(a) = Cardinality(IPv4Places(nodes))
               /\ Len(aaaa) = Cardinality(IPv6Places(nodes))
               /\ \A k \in 1..Len(a) :
                      a[k].Hdr.Rrtype = "A" /\ To4([ok |-> TRUE, groups |-> a[k].A]).ok
               /\ \A k \in 1..Len(aaaa) :
                      aaaa[k].Hdr.Rrtype = "AAAA" /\ ~To4([ok |-> TRUE, groups |-> aaaa[k].AAAA]).ok
    /\ (Resolved /\ probe.req.Question[1].Qtype \in {"A", "AAAA"}) =>
           /\ probe.err = Nil
           /\ probe.resp.Rcode = "NOERROR"
           /\ Len(probe.resp.Answer) =
                  IF probe.req.Question[1].Qtype = "A"
                  THEN Cardinality(IPv4Places(HandledEndpoints))
                  ELSE Cardinality(IPv6Places(HandledEndpoints))
           /\ \A k \in 1..Len(probe.resp.Answer) :
                  probe.resp.Answer[k].Hdr.Rrtype = probe.req.Question[1].Qtype

\* both builders applied to one endpoint with an IPv4 and an IPv6 address:
\* one A record and one AAAA record
C13_Witness ==
    /\ probe.fn = "findServiceNodes"
    /\ {TypeA, TypeAAAA} \subseteq probe.built
    /\ Len(probe.found.nodes) = 1
    /\ probe.found.nodes[1].IPAddresses = << "10.0.0.1", "2001:db8::1" >>
    /\ Len(probe.records[TypeA]) = 1
    /\ probe.records[TypeA][1].A = << 0, 0, 0, 0, 0, 65535, 2560, 1 >>
    /\ Len(probe.records[TypeAAAA]) = 1
    /\ probe.records[TypeAAAA][1].AAAA = << 8193, 3512, 0, 0, 0, 0, 0, 1 >>

\* C14: buildSRVRecords returns exactly one SRV record when the candidate
\* endpoint list is not empty, however many endpoints it holds and whether or
\* not they have addresses, and no record when it is empty; the record has
\* priority 10, weight 10, port 80, the target
\* <service>.<namespace>.svc.clusterset.local. (the owner name of the A
\* records) and the owner name _http._tcp.<service>.<namespace>.svc.clusterset.local.;
\* an SRV query against an empty endpoint set gets the success response code.
C14_OneSRVRecordIffEndpoints ==
    /\ (probe.fn = "findServiceNodes" /\ TypeSRV \in probe.built) =>
           /\ probe.records[TypeSRV] =
                  IF Len(probe.found.nodes) = 0 THEN << >>
                  ELSE << [Hdr |-> [Name |-> "_http._tcp." \o probe.service \o "."
                                                 \o probe.namespace \o ".svc.clusterset.local.",
                                    Rrtype |-> "SRV", Class |-> "IN", Ttl |-> TTL],
                           Priority |-> 10, Weight |-> 10, Port |-> 80,
                           Target |-> probe.service \o "." \o probe.namespace
                                          \o ".svc.clusterset.local."] >>
           /\ (TypeA \in probe.built /\ Len(probe.records[TypeSRV]) = 1) =>
                  \A k \in 1..Len(probe.records[TypeA]) :
                      probe.records[TypeA][k].Hdr.Name = probe.records[TypeSRV][1].Target
    /\ (Resolved /\ probe.req.Question[1].Qtype = "SRV") =>
           /\ probe.resp.Rcode = "NOERROR"
           /\ Len(probe.resp.Answer) = IF Len(HandledEndpoints) = 0 THEN 0 ELSE 1

\* two endpoints found, one of them without addresses: one SRV record, whose
\* target is the owner name of the A records
C14_Witness ==
    /\ probe.fn = "findServiceNodes"
    /\ {TypeA, TypeSRV} \subseteq probe.built
    /\ Len(probe.found.nodes) = 2
    /\ probe.found.nodes[1].IPAddresses = << >>
    /\ Len(probe.records[TypeA]) > 0
    /\ Len(probe.records[TypeSRV]) = 1
    /\ probe.records[TypeSRV][1].Port = 80
    /\ probe.records[TypeSRV][1].Target = probe.records[TypeA][1].Hdr.Name

\* C15: buildTXTRecords returns exactly one TXT record when the candidate
\* endpoint list is not empty and no record when it is empty; the record
\* holds exactly four strings, in this order: cluster=<configured cluster
\* name>, clusterset=<configured clusterset name>, service=<parsed service>,
\* namespace=<parsed namespace>.
C15_OneTXTRecordIffEndpoints ==
    /\ (probe.fn = "findServiceNodes" /\ TypeTXT \in probe.built) =>
           IF Len(probe.found.nodes) = 0 THEN probe.records[TypeTXT] = << >>
           ELSE /\ Len(probe.records[TypeTXT]) = 1
                /\ probe.records[TypeTXT][1].Hdr.Rrtype = "TXT"
                /\ probe.records[TypeTXT][1].Txt =
                       << "cluster=" \o ClusterName, "clusterset=" \o ClusterSet,
                          "service=" \o probe.service, "namespace=" \o probe.namespace >>
    /\ (Resolved /\ probe.req.Question[1].Qtype = "TXT") =>
           IF Len(HandledEndpoints) = 0 THEN probe.resp.Answer = << >>
           ELSE /\ Len(probe.resp.Answer) = 1
                /\ probe.resp.Answer[1].Txt =
                       << "cluster=" \o ClusterName, "clusterset=" \o ClusterSet,
                          "service=" \o HandledName.service,
                          "namespace=" \o HandledName.namespace >>

\* a TXT question asked in mixed case, with two matching endpoints: one
\* record of four strings, service and namespace as parsed (lowercased)
C15_Witness ==
    /\ probe.fn = "handleClustersetQuery"
    /\ probe.req.Question[1] = [Name |-> "My-Svc.NS.svc.clusterset.local.", Qtype |-> "TXT",
                                Qclass |-> "IN"]
    /\ Len(HandledEndpoints) = 2
    /\ Len(probe.resp.Answer) = 1
    /\ probe.resp.Answer[1].Txt = << "cluster=default-cluster", "clusterset=default-clusterset",
                                     "service=my-svc", "namespace=ns" >>

(***************************************************************************)
(* Properties of the answer sections the Query Engine writes (Spec).       *)
(***************************************************************************)
\* the owner name built from the service and the namespace parsed from the
\* name of query i
ParsedOwnerName(i) ==
    parseClusterSetDomain(QName(i)).service \o "." \o parseClusterSetDomain(QName(i)).namespace
        \o ".svc.clusterset.local."

\* C16: every record in every answer section the engine produces, for all
\* four record types and whichever configured zone matched the query, has the
\* configured TTL and an owner name that ends with the literal
\* <service>.<namespace>.svc.clusterset.local. built from the parsed service
\* and namespace, never from the configured zone.
C16_RecordsCarryTTLAndLiteralOwner ==
    \A i \in Queries :
        Wrote(i) =>
            \A k \in 1..Len(queries[i].written[1].Answer) :
                /\ queries[i].written[1].Answer[k].Hdr.Ttl = TTL
                /\ queries[i].written[1].Answer[k].Hdr.Name
                       \in {ParsedOwnerName(i), "_http._tcp." \o ParsedOwnerName(i)}
                /\ HasSuffix(queries[i].written[1].Answer[k].Hdr.Name, ParsedOwnerName(i))

\* under zone local and TTL 600, a question with a label in front of the
\* service is answered with a record owned by the five-label name
C16_Witness ==
    \E i \in Queries :
        /\ Zones = << "local" >>
        /\ TTL = 600
        /\ Wrote(i)
        /\ queries[i].r.Question[1].Name = "a.my-svc.ns.svc.clusterset.local."
        /\ QType(i) = TypeAAAA
        /\ Len(queries[i].written[1].Answer) = 1
        /\ queries[i].written[1].Answer[1].Hdr.Ttl = 600
        /\ queries[i].written[1].Answer[1].Hdr.Name = "my-svc.ns.svc.clusterset.local."

\* C17: in every response the engine produces, each record of the answer
\* section has the record type of the question: no query receives a record
\* of a type it did not request.
C17_AnswerTypeIsQuestionType ==
    \A i \in Queries :
        Wrote(i) =>
            \A k \in 1..Len(queries[i].written[1].Answer) :
                queries[i].written[1].Answer[k].Hdr.Rrtype = queries[i].r.Question[1].Qtype

\* an AAAA question about an endpoint that also has an IPv4 address is
\* answered with its one AAAA record
C17_Witness ==
    \E i \in Queries :
        /\ Wrote(i)
        /\ queries[i].r.Question[1].Qtype = "AAAA"
        /\ Len(Addresses(Endpoints(i))) = 3
        /\ Len(queries[i].written[1].Answer) = 1
        /\ queries[i].written[1].Answer[1].Hdr.Rrtype = "AAAA"
        /\ queries[i].written[1].Answer[1].AAAA = << 8193, 3512, 0, 0, 0, 0, 0, 1 >>

(***************************************************************************)
(* Properties of the request counter and of the inventory calls            *)
(* (SpecConcurrent).                                                       *)
(***************************************************************************)
\* the number of authoritative queries handled so far
AuthoritativeHandled == Cardinality({i \in Queries : Authoritative(i)})

\* the step is the entry of an authoritative query into ServeDNS
AuthoritativeEntry ==
    \E i \in Queries :
        /\ queries[i].pc = "idle"
        /\ queries'[i].pc # "idle"
        /\ \E k \in 1..Len(Zones) :
               EndsWithZone(ToLower(queries'[i].r.Question[1].Name), Zones[k])

\* C18: over any sequence of queries the request counter increases by
\* exactly one for each authoritative query, whatever its later outcome, and
\* by zero for each query passed through to the next handler; its value
\* always equals the number of authoritative queries handled and it never
\* decreases.
C18_CounterCountsAuthoritativeQueries ==
    /\ [](requestCount = AuthoritativeHandled)
    /\ [][/\ AuthoritativeEntry => requestCount' = requestCount + 1
          /\ ~AuthoritativeEntry => requestCount' = requestCount
          /\ requestCount' >= requestCount]_vars

\* a query passed through and an authoritative query answered with a
\* server-failure reply: the counter is one
C18_Witness ==
    /\ requestCount = 1
    /\ \E i, j \in Queries :
           /\ Returned(i) /\ ~Authoritative(i)
           /\ Returned(j) /\ Authoritative(j)
           /\ queries[j].written[1].Rcode = RcodeServerFailure

\* C19 as stated: handling one authoritative question makes exactly one
\* ListNodes call.
C19_OneCallPerAuthoritativeQuestion ==
    \A i \in Queries :
        (Authoritative(i) /\ Returned(i)) => Len(queries[i].listCalls) = 1

\* C19, amended: every authoritative question whose name parses triggers its
\* own inventory round trip: handling it makes exactly one ListNodes call,
\* with an empty owner filter, its reply follows from the result of that call
\* alone (server-failure exactly when its own call failed, whatever an earlier
\* or concurrent query got), and no second call is made after a failure; an
\* authoritative question whose name does not parse makes no ListNodes call.
C19_OneCallPerParsedQuestion ==
    \A i \in Queries :
        Authoritative(i) =>
            /\ Parses(i) => queries[i].listCalls = << "" >>
            /\ ~Parses(i) => queries[i].listCalls = << >>
            /\ (Parses(i) /\ Listed(i)) =>
                   /\ queries[i].pc \in {"write", "done"}
                   /\ Len(queries[i].written) = 1
                   /\ queries[i].written[1].Rcode = RcodeServerFailure
                          <=> queries[i].listErr # Nil
                   /\ (queries[i].listErr = Nil /\ Supported(QType(i))) =>
                          queries[i].written[1].Answer = BuilderOutput(i)

\* two queries for the same name and type, the first one's inventory call
\* failed and the second one's succeeded: one call each, and each reply
\* follows its own call
C19_Witness ==
    \E i, j \in Queries :
        /\ i < j
        /\ queries[i].r = queries[j].r
        /\ Authoritative(i) /\ Parses(i) /\ Returned(i)
        /\ Returned(j)
        /\ queries[i].listErr # Nil
        /\ queries[j].listErr = Nil
        /\ Len(queries[i].listCalls) = 1
        /\ Len(queries[j].listCalls) = 1
        /\ queries[i].written[1].Rcode = RcodeServerFailure
        /\ queries[j].written[1].Rcode = RcodeSuccess
        /\ queries[j].written[1].Answer # << >>

(***************************************************************************)
(* Properties of a failed inventory call (SpecRecords).                    *)
(***************************************************************************)
\* C20: if the inventory call fails for any reason (transport error, expiry
\* or cancellation of the caller's context, a status other than 200, a body
\* that does not decode), ListNodes returns an error and the response to that
\* query carries the server-failure response code; such a failure never
\* appears as a success response with an empty answer section.
C20_InventoryFailureIsServerFailure ==
    /\ (probe.fn = "findServiceNodes" /\ probe.http # "200") =>
           /\ probe.listErr # Nil
           /\ probe.found = [nodes |-> << >>, err |-> probe.listErr]
    /\ (probe.fn = "handleClustersetQuery" /\ HandledName.valid /\ probe.http # "200") =>
           /\ probe.listErr # Nil
           /\ probe.resp.Response
           /\ probe.resp.Rcode = "SERVFAIL"
           /\ probe.resp.Answer = << >>

\* the caller's context expires during the lookup for a name that has a
\* matching endpoint: the reply carries server-failure
C20_Witness ==
    /\ probe.fn = "handleClustersetQuery"
    /\ probe.http = "context deadline exceeded"
    /\ probe.req.Question[1].Name = "my-svc.ns.svc.clusterset.local."
    /\ Len(HandledEndpoints) > 0
    /\ probe.listErr = "context deadline exceeded"
    /\ probe.resp.Rcode = "SERVFAIL"
    /\ probe.resp.Answer = << >>

OwnLookup(i) ==
    IF queries[i].listErr = Nil THEN [nodes |-> HeadscaleClient, err |-> Nil]
    ELSE [nodes |-> << >>, err |-> queries[i].listErr]

\* the reply the handler builds for the request of query i from the
\* configuration and the result of its own inventory call
ReplyOfOwnLookup(i) ==
    handleClustersetQuery(K8sCross, queries[i].r, queries[i].r.Question[1], OwnLookup(i)).resp

\* C22: under any interleaving of concurrently served queries no query
\* changes the shared configuration (zones, TTL, cluster name, clusterset
\* name), the inventory client handle or the inventory's node list; so the
\* outcome of a query does not depend on which other queries run
\* concurrently: its reply is the one the handler builds from its own request,
\* the configuration and its own inventory call.
C22_SharedStateReadOnly ==
    /\ [][UNCHANGED << Zones, TTL, ClusterName, ClusterSet, HeadscaleClient >>]_vars
    /\ [](\A i \in Queries :
              /\ (Authoritative(i) /\ Wrote(i)) =>
                     queries[i].written = << ReplyOfOwnLookup(i) >>
              /\ (Started(i) /\ ~Authoritative(i) /\ Returned(i)) =>
                     queries[i].ret = queries[i].nextRet)

\* a query has been answered with records of TTL 600 while another query is
\* waiting for its inventory call
C22_Witness ==
    \E i, j \in Queries :
        /\ TTL = 600
        /\ queries[i].pc = "inventory"
        /\ Returned(j) /\ Authoritative(j) /\ Parses(j)
        /\ Len(queries[j].written[1].Answer) = 1
        /\ queries[j].written[1].Answer[1].Hdr.Ttl = 600

(***************************************************************************)
(* Properties of parseConfig (SpecConfig).                                 *)
(***************************************************************************)
\* s is a decimal number: one digit or more and nothing else
IsNumber(s) ==
    /\ Len(s) > 0
    /\ \A k \in 1..Len(s) : \E d \in 1..Len(DecDigits) : Char(s, k) = Char(DecDigits, d)

\* the property lines of the block read by parseConfig
Lines == probe.block.props

\* the places of the lines with the given name
LinesNamed(name) == {k \in 1..Len(Lines) : Lines[k].name = name}

\* the causes of an error that C23 lists: no headscale_url line or one with
\* fewer than two arguments, a ttl line that has not exactly one argument or
\* whose argument is not a number, a line with an unknown name
ListedErrorCause ==
    \/ LinesNamed("headscale_url") = {}
    \/ \E k \in LinesNamed("headscale_url") : Len(Lines[k].args) < 2
    \/ \E k \in LinesNamed("ttl") : Len(Lines[k].args) # 1 \/ ~IsNumber(Lines[k].args[1])
    \/ \E k \in 1..Len(Lines) :
           Lines[k].name \notin {"headscale_url", "ttl", "cluster", "clusterset"}

\* the argument of the last line with the given name
LastArgument(name) ==
    Lines[CHOOSE k \in LinesNamed(name) : \A m \in LinesNamed(name) : m <= k].args[1]

\* C23: parseConfig returns an error and no plugin when the block has no
\* headscale_url (or one with fewer than two arguments), when ttl is not a
\* number or has not exactly one argument, or when an unknown property
\* appears; otherwise it returns a plugin with a non-nil inventory client,
\* the given zones or << "." >> when none are given, and TTL 300, cluster name
\* default-cluster and clusterset name default-clusterset unless overridden
\* by the ttl, cluster and clusterset properties.
C23_ParseConfigErrorsAndDefaults ==
    probe.fn = "parseConfig" =>
        IF ListedErrorCause
        THEN probe.err # Nil /\ probe.plugin = NoPlugin
        ELSE /\ probe.err = Nil
             /\ probe.plugin.HeadscaleClient # << >>
             /\ probe.plugin.Zones =
                    IF probe.block.zones = << >> THEN << "." >> ELSE probe.block.zones
             /\ LinesNamed("ttl") = {} => probe.plugin.TTL = 300
             /\ LinesNamed("cluster") = {} => probe.plugin.ClusterName = "default-cluster"
             /\ LinesNamed("cluster") # {} =>
                    probe.plugin.ClusterName = LastArgument("cluster")
             /\ LinesNamed("clusterset") = {} =>
                    probe.plugin.ClusterSet = "default-clusterset"
             /\ LinesNamed("clusterset") # {} =>
                    probe.plugin.ClusterSet = LastArgument("clusterset")

\* the part of C23 about a ttl that is not a number, alone: a block with a
\* ttl line whose one argument is not a number gets an error
C23_NonNumericTTLRejected ==
    (/\ probe.fn = "parseConfig"
     /\ \E k \in LinesNamed("ttl") : Len(Lines[k].args) = 1 /\ ~IsNumber(Lines[k].args[1])) =>
        probe.err # Nil

(***************************************************************************)
(* Properties of the write and of the order of the steps (Spec).           *)
(***************************************************************************)
\* C24: for every authoritative query, on every outcome path (name-error
\* after a parse failure, server-failure after an inventory error,
\* unsupported type, successful synthesis), ServeDNS calls WriteMsg exactly
\* once, with a reply to the request that has the Authoritative flag set,
\* before it returns; when that write succeeds ServeDNS returns (success, nil)
\* whatever response code the written message carries, and when it fails
\* ServeDNS returns (server-failure, the write error).
C24_OneWritePerAuthoritativeQuery ==
    \A i \in Queries :
        Authoritative(i) =>
            /\ Len(queries[i].written) <= 1
            /\ queries[i].pc \in {"write", "done"} <=> Len(queries[i].written) = 1
            /\ Len(queries[i].written) = 1 =>
                   /\ IsReplyTo(queries[i].written[1], i)
                   /\ queries[i].written[1].Authoritative
            /\ Returned(i) =>
                   queries[i].ret =
                       IF queries[i].writeErr = Nil
                       THEN [code |-> "NOERROR", err |-> Nil]
                       ELSE [code |-> "SERVFAIL", err |-> queries[i].writeErr]

\* a query whose inventory call failed: the server-failure reply was written
\* with the Authoritative flag set, and ServeDNS returned (success, nil)
C24_Witness ==
    \E i \in Queries :
        /\ Authoritative(i) /\ Parses(i) /\ Returned(i)
        /\ queries[i].listErr # Nil
        /\ queries[i].writeErr = Nil
        /\ Len(queries[i].written) = 1
        /\ queries[i].written[1].Rcode = "SERVFAIL"
        /\ queries[i].written[1].Authoritative
        /\ queries[i].ret = [code |-> "NOERROR", err |-> Nil]

\* C25: within one authoritative query the steps run in the fixed order
\* parse, inventory lookup, dispatch on the record type: a name that fails to
\* parse never causes an inventory call, a parseable name of an unsupported
\* record type still causes one inventory call, and if that call fails the
\* response is server-failure rather than the empty success response given
\* for unsupported types.
C25_ParseThenLookupThenDispatch ==
    \A i \in Queries :
        Authoritative(i) =>
            /\ ~Parses(i) => queries[i].listCalls = << >>
            /\ Parses(i) => Len(queries[i].listCalls) = 1
            /\ (Parses(i) /\ ~Listed(i)) => queries[i].written = << >>
            /\ (Parses(i) /\ Listed(i) /\ ~Supported(QType(i))) =>
                   /\ Len(queries[i].written) = 1
                   /\ queries[i].written[1].Answer = << >>
                   /\ queries[i].written[1].Rcode =
                          IF queries[i].listErr # Nil THEN "SERVFAIL" ELSE "NOERROR"

\* an MX question for a parseable name whose one inventory call failed: the
\* reply is server-failure
C25_Witness ==
    \E i \in Queries :
        /\ Authoritative(i) /\ Parses(i) /\ Listed(i)
        /\ QType(i) = "MX"
        /\ Len(queries[i].listCalls) = 1
        /\ queries[i].listErr = "API request failed with status 500"
        /\ queries[i].written[1].Rcode = "SERVFAIL"

====
